---- MODULE Spec2Model ----
(***************************************************************************)
(* The guest side of the wasm_glam / input boundary of                     *)
(* procedural_lithification: the AssemblyScript wrappers Vec3 and Quat     *)
(* (mods/as_sys/assembly/interface.ts), the entry points of                *)
(* mods/as_sys/assembly/index.ts and the interface schema                  *)
(* crates/interface/res/math.witx.                                         *)
(*                                                                         *)
(* Guest linear memory is an array of 4-byte cells addressed by their byte *)
(* address.  A wrapper (Vec3, Quat) is the address it was constructed      *)
(* over: the constructors take any usize and check nothing, so every       *)
(* operation on a wrapper takes an arbitrary 4-aligned address.  The       *)
(* storage of the wrapper object itself is not part of the model.          *)
(*                                                                         *)
(* The host side of the boundary is not among the source files.  It is     *)
(* modelled from the specification: a host function resolves every address *)
(* it is given, answers missing_memory and writes nothing when one of      *)
(* them is not allocated guest memory, and otherwise writes the result     *)
(* record at the output address.  f32 values are small integers; the       *)
(* numeric bodies are integer stand-ins (NormalizeVal, MulVec3Val).        *)
(***************************************************************************)
EXTENDS Integers, Sequences, FiniteSets, TLC

VARIABLES mem, blocks, op

vars == <<mem, blocks, op>>

(***************************************************************************)
(* Bounds of the model.                                                    *)
(***************************************************************************)
\* Number of 4-byte cells of guest linear memory.
MemCells == 10
\* Largest magnitude an f32 stand-in takes (larger results saturate).
FMax == 4

(***************************************************************************)
(* Interface schema: math.witx.                                            *)
(***************************************************************************)
\* Width in bytes of the scalar type f32.
F32_SIZE == 4

vec3 == <<"x", "y", "z">>

quat == <<"x", "y", "z", "w">>

\* The enum's tag is the position in this list, counted from 0.
errno == <<"ok", "missing_memory">>

OK == errno[1]

MISSING_MEMORY == errno[2]

\* The three functions of module $wasm_glam: record parameters and result.
wasm_glam ==
  [ unit_z    |-> [params |-> << >>,             result |-> "expected_vec3_errno"],
    normalize |-> [params |-> <<vec3>>,          result |-> "expected_vec3_errno"],
    mul_vec3  |-> [params |-> <<quat, vec3>>,    result |-> "expected_vec3_errno"] ]

\* A record has no padding: its size is the sum of its fields' sizes.
RecordSize(rec) == Len(rec) * F32_SIZE

\* The offset of a field is the size of the fields before it.
FieldOffset(rec, f) == ((CHOOSE i \in 1..Len(rec) : rec[i] = f) - 1) * F32_SIZE

(***************************************************************************)
(* Guest bindings: interface.ts.                                           *)
(***************************************************************************)
\* "Size of value at Vec3.ptr"
VEC3_SIZE == RecordSize(vec3)

\* "Size of value at Quat.ptr"
QUAT_SIZE == RecordSize(quat)

\* The declared host imports: parameter names and return type.
Bindings ==
  [ unit_z    |-> [params |-> <<"ptr">>,             result |-> "void"],
    mul_vec3  |-> [params |-> <<"rot", "v", "out">>, result |-> "void"],
    normalize |-> [params |-> <<"out">>,             result |-> "void"] ]

\* The input code the entry point just_pressed forwards.
INPUT_CODE == 34

\* The functions index.ts exports to the host.
GuestExports == {"just_pressed", "initialize"}

(***************************************************************************)
(* Guest linear memory and the heap.                                       *)
(***************************************************************************)
MemSize == MemCells * F32_SIZE

\* The 4-aligned byte addresses of linear memory.
Addrs == {a \in 0..(MemSize - 1) : a % F32_SIZE = 0}

\* The opaque input references a caller may hold.
Refs == {"ref_a", "ref_b"}

\* load<f32>(ptr, immOffset)
load(m, ptr, off) == m[ptr + off]

\* An access outside linear memory traps.
InBounds(ptr, size) == ptr >= 0 /\ ptr + size <= MemSize

RECURSIVE SumSizes(_)
SumSizes(bl) == IF bl = << >> THEN 0 ELSE bl[1].size + SumSizes(Tail(bl))

\* The heap never frees: the next block starts where the last one ended.
HeapTop(bl) == SumSizes(bl)

\* heap.alloc(size) succeeds while the arena has room; failure is fatal.
CanAlloc(bl, size) == HeapTop(bl) + size <= MemSize

\* heap.alloc(size): the block it hands out.
heap_alloc(bl, size, who) == [base |-> HeapTop(bl), size |-> size, by |-> who]

BlockRange(b) == {a \in Addrs : b.base <= a /\ a < b.base + b.size}

Range(ptr, size) == {a \in Addrs : ptr <= a /\ a < ptr + size}

\* The cells of every allocated block.
Allocated(bl) == UNION {BlockRange(bl[i]) : i \in 1..Len(bl)}

\* [ptr, ptr+size) lies inside one allocated block.
InBuffer(bl, ptr, size) ==
  \E i \in 1..Len(bl) : bl[i].base <= ptr /\ ptr + size <= bl[i].base + bl[i].size

\* The addresses a caller wraps: the base of every allocated block (a buffer
\* of the right or of the wrong record type), the first address the heap has
\* not handed out yet, and the last cell it has handed out (a record there
\* reaches past the allocated memory).
Ptrs(bl) ==
  ({bl[i].base : i \in 1..Len(bl)} \cup {HeapTop(bl), HeapTop(bl) - F32_SIZE}) \cap Addrs

ReadRec(m, ptr, n) == [i \in 1..n |-> m[ptr + (i - 1) * F32_SIZE]]

WriteRec(m, ptr, val) ==
  [a \in DOMAIN m |->
     IF a \in Range(ptr, Len(val) * F32_SIZE) THEN val[((a - ptr) \div F32_SIZE) + 1]
     ELSE m[a]]

(***************************************************************************)
(* The host side of the boundary (from the specification).                 *)
(***************************************************************************)
\* The host can resolve [ptr, ptr+size) when every cell of it is allocated.
Accessible(bl, ptr, size) ==
  /\ InBounds(ptr, size)
  /\ Range(ptr, size) \subseteq Allocated(bl)

Sat(x) == IF x > FMax THEN FMax ELSE IF x < -FMax THEN -FMax ELSE x

Sign(x) == IF x > 0 THEN 1 ELSE IF x < 0 THEN -1 ELSE 0

\* Stand-in for v / |v|: exact on axis-aligned vectors.
NormalizeVal(v) == <<Sign(v[1]), Sign(v[2]), Sign(v[3])>>

Dot(a, b) == a[1] * b[1] + a[2] * b[2] + a[3] * b[3]

Cross(a, b) ==
  <<a[2] * b[3] - a[3] * b[2], a[3] * b[1] - a[1] * b[3], a[1] * b[2] - a[2] * b[1]>>

\* q * v as glam computes it: v(w^2 - b.b) + 2b(v.b) + 2w(b x v), b = (x, y, z).
MulVec3Val(q, v) ==
  LET b  == <<q[1], q[2], q[3]>>
      w  == q[4]
      c  == Cross(b, v)
  IN  [i \in 1..3 |->
         Sat(v[i] * (w * w - Dot(b, b)) + b[i] * (2 * Dot(v, b)) + c[i] * (2 * w))]

\* unit_z: writes (0, 0, 1) at out.
Host_unit_z(m, bl, out) ==
  IF Accessible(bl, out, VEC3_SIZE)
  THEN [errno |-> OK, mem |-> WriteRec(m, out, <<0, 0, 1>>)]
  ELSE [errno |-> MISSING_MEMORY, mem |-> m]

\* A host that normalizes field by field and gives up at the first cell it
\* cannot resolve, leaving the fields before it written.
Host_normalize_FieldByField(m, bl, out) ==
  IF Accessible(bl, out, VEC3_SIZE)
  THEN [errno |-> OK, mem |-> WriteRec(m, out, NormalizeVal(ReadRec(m, out, 3)))]
  ELSE [errno |-> MISSING_MEMORY,
        mem |-> [a \in DOMAIN m |->
                   IF a = out /\ a \in Allocated(bl) THEN Sign(m[a]) ELSE m[a]]]

\* normalize: reads the vector at out and writes its normalization there.
Host_normalize(m, bl, out) ==
  IF Accessible(bl, out, VEC3_SIZE)
  THEN [errno |-> OK, mem |-> WriteRec(m, out, NormalizeVal(ReadRec(m, out, 3)))]
  ELSE [errno |-> MISSING_MEMORY, mem |-> m]

\* mul_vec3: reads the quaternion at rot and the vector at v, writes q * v at out.
Host_mul_vec3(m, bl, rot, v, out) ==
  IF /\ Accessible(bl, rot, QUAT_SIZE)
     /\ Accessible(bl, v, VEC3_SIZE)
     /\ Accessible(bl, out, VEC3_SIZE)
  THEN [errno |-> OK,
        mem |-> WriteRec(m, out, MulVec3Val(ReadRec(m, rot, 4), ReadRec(m, v, 3)))]
  ELSE [errno |-> MISSING_MEMORY, mem |-> m]

(***************************************************************************)
(* The record of the last guest operation: its arguments, the blocks it    *)
(* allocated, the boundary calls it made and what it returned.             *)
(***************************************************************************)
NoRet == [kind |-> "none", val |-> 0, this |-> FALSE]

NoOp ==
  [name |-> "none", recv |-> << >>, recvOk |-> << >>, allocs |-> << >>,
   calls |-> << >>, ret |-> NoRet]

\* A call of a math import: the guest sees what the binding's return type carries.
MathCall(fn, args, status) ==
  [fn |-> fn, args |-> args, errno |-> status, answer |-> FALSE,
   seen |-> Bindings[fn].result]

\* A call of an input import: the host answers a boolean.
InputCall(fn, args, b) ==
  [fn |-> fn, args |-> args, errno |-> "none", answer |-> b, seen |-> "boolean"]

\* new Vec3(ptr): a wrapper that was not `this`.
NewVec3(ptr) == [kind |-> "vec3", val |-> ptr, this |-> FALSE]

\* boolean returned as i32.
BoolToI32(b) == IF b THEN 1 ELSE 0

\* Records a caller writes into the buffers it allocates itself.
VecSamples == {<<2, 0, 0>>}

QuatSamples == {<<0, 0, 1, 0>>, <<1, 2, 3, 4>>}

(***************************************************************************)
(* Operations.                                                             *)
(***************************************************************************)
\* The caller allocates a buffer for a record of its own and fills it in.
allocate_record ==
  \E val \in VecSamples \cup QuatSamples :
    /\ CanAlloc(blocks, Len(val) * F32_SIZE)
    /\ LET b == heap_alloc(blocks, Len(val) * F32_SIZE, "caller")
       IN  /\ blocks' = Append(blocks, b)
           /\ mem' = WriteRec(mem, b.base, val)
           /\ op' = [NoOp EXCEPT !.name = "allocate", !.allocs = <<b>>]

\* unit_z with the output buffer sized for a Quat.
Vec3_unit_z_QuatSized ==
  /\ CanAlloc(blocks, QUAT_SIZE)
  /\ LET b  == heap_alloc(blocks, QUAT_SIZE, "unit_z")
         bl == Append(blocks, b)
         r  == Host_unit_z(mem, bl, b.base)
     IN  /\ blocks' = bl
         /\ mem' = r.mem
         /\ op' = [name |-> "unit_z", recv |-> << >>, recvOk |-> << >>,
                   allocs |-> <<b>>,
                   calls |-> <<MathCall("unit_z", <<b.base>>, r.errno)>>,
                   ret |-> NewVec3(b.base)]

\* static Vec3.unit_z()
Vec3_unit_z ==
  /\ CanAlloc(blocks, VEC3_SIZE)
  /\ LET b  == heap_alloc(blocks, VEC3_SIZE, "unit_z")
         bl == Append(blocks, b)
         r  == Host_unit_z(mem, bl, b.base)
     IN  /\ blocks' = bl
         /\ mem' = r.mem
         /\ op' = [name |-> "unit_z", recv |-> << >>, recvOk |-> << >>,
                   allocs |-> <<b>>,
                   calls |-> <<MathCall("unit_z", <<b.base>>, r.errno)>>,
                   ret |-> NewVec3(b.base)]

\* normalize that hands the host the address of the receiver's second field.
Vec3_normalize_OffByField(this_ptr) ==
  LET r == Host_normalize(mem, blocks, this_ptr + F32_SIZE)
  IN  /\ blocks' = blocks
      /\ mem' = r.mem
      /\ op' = [name |-> "normalize", recv |-> <<this_ptr>>,
                recvOk |-> <<InBuffer(blocks, this_ptr, VEC3_SIZE)>>,
                allocs |-> << >>,
                calls |-> <<MathCall("normalize", <<this_ptr + F32_SIZE>>, r.errno)>>,
                ret |-> [kind |-> "vec3", val |-> this_ptr, this |-> TRUE]]

\* normalize as the allocating revision: the result goes to a new buffer and
\* a new wrapper, the receiver's buffer is left alone.
Vec3_normalize_Allocating(this_ptr) ==
  /\ CanAlloc(blocks, VEC3_SIZE)
  /\ LET b  == heap_alloc(blocks, VEC3_SIZE, "normalize")
         bl == Append(blocks, b)
         ok == Accessible(bl, this_ptr, VEC3_SIZE)
     IN  /\ blocks' = bl
         /\ mem' = IF ok THEN WriteRec(mem, b.base, NormalizeVal(ReadRec(mem, this_ptr, 3)))
                   ELSE mem
         /\ op' = [name |-> "normalize", recv |-> <<this_ptr>>,
                   recvOk |-> <<InBuffer(blocks, this_ptr, VEC3_SIZE)>>,
                   allocs |-> <<b>>,
                   calls |-> <<MathCall("normalize", <<this_ptr>>,
                                        IF ok THEN OK ELSE MISSING_MEMORY)>>,
                   ret |-> NewVec3(b.base)]

\* Vec3.normalize() on the wrapper over `this_ptr`
Vec3_normalize(this_ptr) ==
  LET r == Host_normalize(mem, blocks, this_ptr)
  IN  /\ blocks' = blocks
      /\ mem' = r.mem
      /\ op' = [name |-> "normalize", recv |-> <<this_ptr>>,
                recvOk |-> <<InBuffer(blocks, this_ptr, VEC3_SIZE)>>,
                allocs |-> << >>,
                calls |-> <<MathCall("normalize", <<this_ptr>>, r.errno)>>,
                ret |-> [kind |-> "vec3", val |-> this_ptr, this |-> TRUE]]

\* mul_vec3 with the two input addresses exchanged.
Quat_mul_vec3_Swapped(this_ptr, v_ptr) ==
  /\ CanAlloc(blocks, VEC3_SIZE)
  /\ LET b  == heap_alloc(blocks, VEC3_SIZE, "mul_vec3")
         bl == Append(blocks, b)
         r  == Host_mul_vec3(mem, bl, v_ptr, this_ptr, b.base)
     IN  /\ blocks' = bl
         /\ mem' = r.mem
         /\ op' = [name |-> "mul_vec3", recv |-> <<this_ptr, v_ptr>>,
                   recvOk |-> <<InBuffer(blocks, this_ptr, QUAT_SIZE),
                                InBuffer(blocks, v_ptr, VEC3_SIZE)>>,
                   allocs |-> <<b>>,
                   calls |-> <<MathCall("mul_vec3", <<v_ptr, this_ptr, b.base>>, r.errno)>>,
                   ret |-> NewVec3(b.base)]

\* mul_vec3 that rotates v in place, as normalize does.
Quat_mul_vec3_InPlace(this_ptr, v_ptr) ==
  LET r == Host_mul_vec3(mem, blocks, this_ptr, v_ptr, v_ptr)
  IN  /\ blocks' = blocks
      /\ mem' = r.mem
      /\ op' = [name |-> "mul_vec3", recv |-> <<this_ptr, v_ptr>>,
                recvOk |-> <<InBuffer(blocks, this_ptr, QUAT_SIZE),
                             InBuffer(blocks, v_ptr, VEC3_SIZE)>>,
                allocs |-> << >>,
                calls |-> <<MathCall("mul_vec3", <<this_ptr, v_ptr, v_ptr>>, r.errno)>>,
                ret |-> [kind |-> "vec3", val |-> v_ptr, this |-> FALSE]]

\* Quat.mul_vec3(v) on the wrapper over `this_ptr`, v the wrapper over `v_ptr`
Quat_mul_vec3(this_ptr, v_ptr) ==
  /\ CanAlloc(blocks, VEC3_SIZE)
  /\ LET b  == heap_alloc(blocks, VEC3_SIZE, "mul_vec3")
         bl == Append(blocks, b)
         r  == Host_mul_vec3(mem, bl, this_ptr, v_ptr, b.base)
     IN  /\ blocks' = bl
         /\ mem' = r.mem
         /\ op' = [name |-> "mul_vec3", recv |-> <<this_ptr, v_ptr>>,
                   recvOk |-> <<InBuffer(blocks, this_ptr, QUAT_SIZE),
                                InBuffer(blocks, v_ptr, VEC3_SIZE)>>,
                   allocs |-> <<b>>,
                   calls |-> <<MathCall("mul_vec3", <<this_ptr, v_ptr, b.base>>, r.errno)>>,
                   ret |-> NewVec3(b.base)]

\* A field accessor of Quat: load<f32>(this.ptr, off).
Quat_get(name, this_ptr, off) ==
  /\ InBounds(this_ptr + off, F32_SIZE)
  /\ UNCHANGED <<mem, blocks>>
  /\ op' = [NoOp EXCEPT !.name = name, !.recv = <<this_ptr>>,
                        !.ret = [kind |-> "f32", val |-> load(mem, this_ptr, off),
                                 this |-> FALSE]]

Quat_getX(this_ptr) == Quat_get("getX", this_ptr, 0)

Quat_getY(this_ptr) == Quat_get("getY", this_ptr, 4)

Quat_getZ(this_ptr) == Quat_get("getZ", this_ptr, 8)

\* getW reading the z field.
Quat_getW_ReadsZ(this_ptr) == Quat_get("getW", this_ptr, 8)

Quat_getW(this_ptr) == Quat_get("getW", this_ptr, 12)

\* just_pressed answering whether the host said no.
just_pressed_Negated(inp) ==
  \E b \in BOOLEAN :
    /\ UNCHANGED <<mem, blocks>>
    /\ op' = [NoOp EXCEPT !.name = "just_pressed", !.recv = <<inp>>,
                          !.calls = <<InputCall("just_pressed", <<inp, INPUT_CODE>>, b)>>,
                          !.ret = [kind |-> "i32", val |-> BoolToI32(~b), this |-> FALSE]]

\* export function just_pressed(inp): the host answers either way.
just_pressed(inp) ==
  \E b \in BOOLEAN :
    /\ UNCHANGED <<mem, blocks>>
    /\ op' = [NoOp EXCEPT !.name = "just_pressed", !.recv = <<inp>>,
                          !.calls = <<InputCall("just_pressed", <<inp, INPUT_CODE>>, b)>>,
                          !.ret = [kind |-> "i32", val |-> BoolToI32(b), this |-> FALSE]]

Init ==
  /\ mem = [a \in Addrs |-> 0]
  /\ blocks = << >>
  /\ op = NoOp

Next ==
  \/ allocate_record
  \/ Vec3_unit_z
  \/ \E p \in Ptrs(blocks) : Vec3_normalize(p)
  \/ \E q \in Ptrs(blocks), v \in Ptrs(blocks) : Quat_mul_vec3(q, v)
  \/ \E p \in Ptrs(blocks) : Quat_getX(p)
  \/ \E p \in Ptrs(blocks) : Quat_getY(p)
  \/ \E p \in Ptrs(blocks) : Quat_getZ(p)
  \/ \E p \in Ptrs(blocks) : Quat_getW(p)
  \/ \E inp \in Refs : just_pressed(inp)

Spec == Init /\ [][Next]_vars

(***************************************************************************)
(* Vocabulary of the properties.                                           *)
(***************************************************************************)
MathFns == {"unit_z", "normalize", "mul_vec3"}

Getters == {"getX", "getY", "getZ", "getW"}

GetterField == [getX |-> "x", getY |-> "y", getZ |-> "z", getW |-> "w"]

\* The math boundary calls of the last operation.
MathCallsOf(o) == {i \in 1..Len(o.calls) : o.calls[i].fn \in MathFns}

Disjoint(p1, n1, p2, n2) == p1 + n1 <= p2 \/ p2 + n2 <= p1

IsPrefix(s, t) == Len(s) <= Len(t) /\ \A i \in 1..Len(s) : s[i] = t[i]

(***************************************************************************)
(* C1.  When the host signals missing_memory for unit_z, normalize or      *)
(* mul_vec3, the guest has received the tag and returns no Vec3 wrapper:   *)
(* it surfaces the error.                                                  *)
(***************************************************************************)
C1_ErrorSurfaced ==
  \A i \in MathCallsOf(op) :
    op.calls[i].errno = MISSING_MEMORY =>
      /\ op.calls[i].seen = "errno"
      /\ op.ret.kind # "vec3"

(***************************************************************************)
(* C2 as stated.  Every address passed to _unit_z, _normalize or _mul_vec3 *)
(* lies in a buffer allocated before the call that is at least as large as *)
(* the record at that address: 12 bytes for a Vec3, 16 for a Quat.         *)
(***************************************************************************)
ArgSizes == [unit_z |-> <<12>>, normalize |-> <<12>>, mul_vec3 |-> <<16, 12, 12>>]

C2_AddressesAllocated ==
  \A i \in MathCallsOf(op) :
    LET c == op.calls[i]
    IN  \A k \in 1..Len(c.args) : InBuffer(blocks, c.args[k], ArgSizes[c.fn][k])

(***************************************************************************)
(* C2 amended.  The output address passed to _unit_z and _mul_vec3 is the  *)
(* base of a buffer of at least 12 bytes that the operation allocated      *)
(* before the call.  An input address (the receiver of normalize, the quat *)
(* and the vec of mul_vec3) is the address its wrapper was constructed     *)
(* over, unchecked: it lies in an allocated buffer of its record's size    *)
(* whenever the wrapper was constructed over one.  The wrappers unit_z and *)
(* mul_vec3 return are constructed over such a buffer.                     *)
(***************************************************************************)
C2_OutputsAllocatedInputsAsGiven ==
  /\ \A i \in MathCallsOf(op) :
       LET c == op.calls[i]
       IN  /\ c.fn \in {"unit_z", "mul_vec3"} =>
                /\ Len(op.allocs) = 1
                /\ c.args[Len(c.args)] = op.allocs[1].base
                /\ op.allocs[1].size >= 12
                /\ InBuffer(blocks, c.args[Len(c.args)], 12)
           /\ \A k \in 1..Len(op.recv) :
                /\ c.args[k] = op.recv[k]
                /\ op.recvOk[k] => InBuffer(blocks, c.args[k], ArgSizes[c.fn][k])
  /\ \A j \in 1..Len(blocks) :
       blocks[j].by \in {"unit_z", "mul_vec3"} => InBuffer(blocks, blocks[j].base, 12)

\* mul_vec3 was called on a Quat and a Vec3 that both lie in buffers of their size.
C2_Witness ==
  /\ op.name = "mul_vec3"
  /\ op.recvOk = <<TRUE, TRUE>>
  /\ op.calls[1].errno = OK

C3_Witness ==
  /\ op.name = "mul_vec3"
  /\ op.calls[1].errno = MISSING_MEMORY
  /\ \E a \in Allocated(blocks) : mem[a] # 0

C4_UnitZ ==
  op.name = "unit_z" =>
    /\ Len(op.allocs) = 1
    /\ op.allocs[1].size = 12
    /\ op.allocs[1].size = RecordSize(vec3)
    /\ Len(op.calls) = 1
    /\ op.calls[1].fn = "unit_z"
    /\ op.calls[1].args = <<op.allocs[1].base>>
    /\ op.ret.kind = "vec3"
    /\ op.ret.val = op.allocs[1].base

\* unit_z ran after other buffers had been allocated, and the host wrote (0, 0, 1).
C4_Witness ==
  /\ op.name = "unit_z"
  /\ Len(blocks) >= 2
  /\ ReadRec(mem, op.ret.val, 3) = <<0, 0, 1>>

(***************************************************************************)
(* C5.  q.mul_vec3(v) allocates one output buffer of the size of a Vec3,   *)
(* calls the boundary mul_vec3 exactly once with (q's address, v's         *)
(* address, output address) in this order, and returns a Vec3 wrapper over *)
(* the output address.                                                     *)
(***************************************************************************)
C5_MulVec3 ==
  op.name = "mul_vec3" =>
    /\ Len(op.allocs) = 1
    /\ op.allocs[1].size = RecordSize(vec3)
    /\ Len(op.calls) = 1
    /\ op.calls[1].fn = "mul_vec3"
    /\ op.calls[1].args = <<op.recv[1], op.recv[2], op.allocs[1].base>>
    /\ op.ret.kind = "vec3"
    /\ op.ret.val = op.allocs[1].base

\* A sample quaternion rotated a sample vector: (0,0,1,0) turns (2,0,0) into (-2,0,0).
C5_Witness ==
  /\ op.name = "mul_vec3"
  /\ op.recv[1] # op.recv[2]
  /\ op.calls[1].errno = OK
  /\ ReadRec(mem, op.recv[1], 4) = <<0, 0, 1, 0>>
  /\ ReadRec(mem, op.recv[2], 3) = <<2, 0, 0>>
  /\ ReadRec(mem, op.ret.val, 3) = <<-2, 0, 0>>

(***************************************************************************)
(* C6.  The accessors getX, getY, getZ and getW of a Quat at address p     *)
(* return the floats stored at p+0, p+4, p+8 and p+12, the offsets of the  *)
(* fields x, y, z, w in the schema's record, and change no memory.         *)
(***************************************************************************)
ClaimedOffset == [getX |-> 0, getY |-> 4, getZ |-> 8, getW |-> 12]

C6_QuatAccessors ==
  [][op'.name \in Getters =>
       LET p == op'.recv[1]
       IN  /\ ClaimedOffset[op'.name] = FieldOffset(quat, GetterField[op'.name])
           /\ op'.ret.kind = "f32"
           /\ op'.ret.val = mem[p + ClaimedOffset[op'.name]]
           /\ mem' = mem
           /\ blocks' = blocks]_vars

\* getW read the fourth float of the quaternion (1, 2, 3, 4).
C6_Witness ==
  /\ op.name = "getW"
  /\ ReadRec(mem, op.recv[1], 4) = <<1, 2, 3, 4>>
  /\ op.ret.val = 4

(***************************************************************************)
(* C7 as stated.  just_pressed and just_released are guest-facing entry    *)
(* points; each forwards the caller's reference and the code 34 to the     *)
(* host exactly once and returns the host's answer unchanged.              *)
(***************************************************************************)
Forwards(e) ==
  op.name = e =>
    /\ Len(op.calls) = 1
    /\ op.calls[1].fn = e
    /\ op.calls[1].args = <<op.recv[1], 34>>
    /\ op.ret.kind = "i32"
    /\ op.ret.val = (IF op.calls[1].answer THEN 1 ELSE 0)

C7_BothEntryPoints ==
  \A e \in {"just_pressed", "just_released"} : e \in GuestExports /\ Forwards(e)

(***************************************************************************)
(* C7 amended.  The guest exports just_pressed alone: it forwards the      *)
(* caller's reference and the code 34 to the host import just_pressed      *)
(* exactly once and returns the host's boolean as an i32 (1 for true, 0    *)
(* for false).  No guest entry point calls the import just_released.       *)
(***************************************************************************)
C7_JustPressedForwards ==
  /\ "just_pressed" \in GuestExports
  /\ Forwards("just_pressed")
  /\ \A i \in 1..Len(op.calls) : op.calls[i].fn # "just_released"

\* The host answered true and the entry point returned 1.
C7_Witness ==
  /\ op.name = "just_pressed"
  /\ op.calls[1].answer = TRUE
  /\ op.ret.val = 1

\* The host answered false and the entry point returned 0.
C7_WitnessFalse ==
  /\ op.name = "just_pressed"
  /\ op.calls[1].answer = FALSE
  /\ op.ret.val = 0

(***************************************************************************)
(* C8.  Every math boundary call follows one convention, the guest passing *)
(* a pre-allocated output address, and agrees with the schema's signature: *)
(* one address per record parameter, then the output address, and a        *)
(* result that carries the errno of expected-vec3/errno.                   *)
(***************************************************************************)
C8_BindingsAgreeWithSchema ==
  \A i \in MathCallsOf(op) :
    LET c == op.calls[i]
    IN  /\ Len(c.args) = Len(wasm_glam[c.fn].params) + 1
        /\ Len(Bindings[c.fn].params) = Len(c.args)
        /\ wasm_glam[c.fn].result = "expected_vec3_errno" => c.seen = "errno"

(***************************************************************************)
(* C9.  Vec3.normalize() works in place: it allocates nothing, calls the   *)
(* boundary normalize once with the receiver's address, returns the        *)
(* receiver itself, and when the host has normalized, the buffer at that   *)
(* address (what every wrapper over it reads) holds the normalization of   *)
(* what it held, every other cell being as it was.                         *)
(***************************************************************************)
C9_NormalizeInPlace ==
  [][op'.name = "normalize" =>
       LET p == op'.recv[1]
       IN  /\ op'.allocs = << >>
           /\ blocks' = blocks
           /\ Len(op'.calls) = 1
           /\ op'.calls[1].fn = "normalize"
           /\ op'.calls[1].args = <<p>>
           /\ op'.ret = [kind |-> "vec3", val |-> p, this |-> TRUE]
           /\ op'.calls[1].errno = OK =>
                /\ ReadRec(mem', p, 3) = NormalizeVal(ReadRec(mem, p, 3))
                /\ \A a \in Addrs \ Range(p, 12) : mem'[a] = mem[a]
           /\ op'.calls[1].errno # OK => mem' = mem]_vars

\* normalize turned the caller's (2, 0, 0) into (1, 0, 0) in the caller's buffer.
C9_Witness ==
  /\ op.name = "normalize"
  /\ op.calls[1].errno = OK
  /\ \E j \in 1..Len(blocks) :
       /\ blocks[j].by = "caller"
       /\ blocks[j].base = op.ret.val
       /\ blocks[j].size = 12
  /\ ReadRec(mem, op.ret.val, 3) = <<1, 0, 0>>

(***************************************************************************)
(* C10 as stated.  The output buffer of unit_z and mul_vec3 is freshly     *)
(* allocated: its 12 bytes are disjoint from every buffer allocated        *)
(* earlier and from the quat and the vec passed to mul_vec3; no buffer is  *)
(* ever freed.                                                             *)
(***************************************************************************)
FreshOutput(bl, o) ==
  /\ Len(o.allocs) = 1
  /\ o.ret.val = o.allocs[1].base
  /\ \A j \in 1..Len(bl) :
       Disjoint(o.allocs[1].base, 12, bl[j].base, bl[j].size)

InputSizes == <<16, 12>>

C10_OutputDisjointFromInputs ==
  [][/\ IsPrefix(blocks, blocks')
     /\ op'.name \in {"unit_z", "mul_vec3"} /\ op' # op =>
          /\ blocks' # blocks
          /\ FreshOutput(blocks, op')
          /\ \A k \in 1..Len(op'.recv) :
               Disjoint(op'.allocs[1].base, 12, op'.recv[k], InputSizes[k])]_vars

(***************************************************************************)
(* C10 amended.  The output buffer of unit_z and mul_vec3 is freshly       *)
(* allocated: its 12 bytes are disjoint from every buffer allocated        *)
(* earlier, hence from each input of mul_vec3 that lies in such a buffer;  *)
(* no buffer is ever freed.  An input wrapper constructed over an address  *)
(* the heap has not handed out yet is not covered: the output buffer may   *)
(* be allocated at that address.                                           *)
(***************************************************************************)
C10_OutputDisjointFromBuffers ==
  [][/\ IsPrefix(blocks, blocks')
     /\ op'.name \in {"unit_z", "mul_vec3"} /\ op' # op =>
          /\ blocks' # blocks
          /\ FreshOutput(blocks, op')
          /\ \A k \in 1..Len(op'.recv) :
               op'.recvOk[k] =>
                 Disjoint(op'.allocs[1].base, 12, op'.recv[k], InputSizes[k])]_vars

\* mul_vec3 on a Quat and a Vec3 in buffers of their own returned a third buffer.
C10_Witness ==
  /\ op.name = "mul_vec3"
  /\ op.recvOk = <<TRUE, TRUE>>
  /\ Len(blocks) >= 3
  /\ op.ret.val = blocks[Len(blocks)].base
  /\ op.ret.val > op.recv[1]
  /\ op.ret.val > op.recv[2]

====
